---- MODULE Spec2Model ----
(***************************************************************************)
(* Model of the order router (somewhat_smart_order_router.py) and of the   *)
(* k-means feature transformer (cluster_features.py).                      *)
(*                                                                         *)
(* Python values are encoded as follows.                                   *)
(*   Optional[T]   : None is <<>>, a present value v is <<v>>              *)
(*   dict          : the sequence of its <<key, value>> items in iteration *)
(*                   (insertion) order, keys distinct                      *)
(*   str           : the sequence of its characters                        *)
(*   float         : a record [cls, val]; cls is "fin", "nan", "pinf" or   *)
(*                   "ninf" and val is the number when cls = "fin"         *)
(*   return value  : the tuple of the components the return statement      *)
(*                   yields (a bare value is a 1-tuple)                    *)
(***************************************************************************)
EXTENDS Integers, Sequences, FiniteSets, TLC

VARIABLES
    artifact,      \* the mapping serialized in MODELS_PATH on disk
    _models,       \* module global _models : Optional[ModelsByExchange]
    loads,         \* number of load(MODELS_PATH) calls made so far
    calls,         \* number of best_price_improvement calls completed
    outcome,       \* what the most recent best_price_improvement call did
    pc,            \* per thread: position inside best_price_improvement
    args,          \* per thread: the order the running call was given
    n_clusters,    \* ClusterFeatureAdder.n_clusters
    kmeans_,       \* ClusterFeatureAdder.kmeans_ : Optional[KMeans]
    fit_returned,  \* what the last fit call returned
    tresult        \* what the most recent transform call did

vars == <<artifact, _models, loads, calls, outcome, pc, args,
          n_clusters, kmeans_, fit_returned, tresult>>

routerVars == <<artifact, _models, loads, calls, outcome, pc, args>>
clusterVars == <<n_clusters, kmeans_, fit_returned, tresult>>

----------------------------------------------------------------------------
(* Bounds *)

MaxVenues == 2
MaxCalls == 2
MaxThreads == 2
MaxClusters == 2
MaxRows == 2

----------------------------------------------------------------------------
(* Python values *)

None == <<>>
Some(v) == <<v>>

Fin(n) == [cls |-> "fin", val |-> n]
NaN == [cls |-> "nan", val |-> 0]
PosInf == [cls |-> "pinf", val |-> 0]
NegInf == [cls |-> "ninf", val |-> 0]

IsFinite(x) == x.cls = "fin"

\* a > b on floats: every comparison with NaN is false
Gt(a, b) ==
    CASE a.cls = "nan" \/ b.cls = "nan" -> FALSE
      [] a.cls = "pinf" -> b.cls # "pinf"
      [] a.cls = "ninf" -> FALSE
      [] OTHER -> b.cls = "ninf" \/ (b.cls = "fin" /\ a.val > b.val)

Ge(a, b) == Gt(a, b) \/ (a.cls # "nan" /\ a = b)

RECURSIVE Pow2(_)
Pow2(e) == IF e = 0 THEN 1 ELSE 2 * Pow2(e - 1)

RECURSIVE Log2Floor(_)
Log2Floor(a) == IF a < 2 THEN 0 ELSE 1 + Log2Floor(a \div 2)

Abs(n) == IF n < 0 THEN -n ELSE n

\* dtype="float32" applied to an integral value: 24 significant bits,
\* round to nearest, ties to even
Float32(n) ==
    LET a == Abs(n)
        e == Log2Floor(a)
        ulp == IF e > 23 THEN Pow2(e - 23) ELSE 1
        q == a \div ulp
        r == a % ulp
        up == (2 * r > ulp) \/ (2 * r = ulp /\ q % 2 = 1)
        m == IF up THEN (q + 1) * ulp ELSE q * ulp
    IN IF n < 0 THEN -m ELSE m

\* str.upper() on the characters the model uses
UpperChar(c) ==
    CASE c = "b" -> "B"
      [] c = "s" -> "S"
      [] c = "x" -> "X"
      [] OTHER -> c

Upper(s) == [i \in DOMAIN s |-> UpperChar(s[i])]

----------------------------------------------------------------------------
(* Regressors: what model.predict(features)[0] yields *)

Regressors ==
    {[kind |-> "const", val |-> Fin(10)],
     [kind |-> "const", val |-> Fin(5)],
     [kind |-> "const", val |-> NaN],
     [kind |-> "const", val |-> PosInf],
     [kind |-> "const", val |-> NegInf],
     [kind |-> "side", val |-> Fin(7)],
     [kind |-> "qty", val |-> Fin(0)]}

Predict(model, features) ==
    CASE model.kind = "const" -> model.val
      [] model.kind = "side" -> Fin(model.val.val * features[1])
      [] OTHER -> Fin(features[2])

VenueNames == <<"A", "B", "C", "D">>
Venues == {VenueNames[i] : i \in 1..MaxVenues}

\* the mappings the artifact may hold: items in insertion order, distinct keys
Registries ==
    UNION {{m \in [1..n -> Venues \X Regressors] :
               \A i, j \in 1..n : i # j => m[i][1] # m[j][1]} : n \in 0..MaxVenues}

Keys(models) == {models[i][1] : i \in DOMAIN models}

----------------------------------------------------------------------------
(* Orders *)

Sides == {<<"B">>, <<"b">>, <<"S">>, <<"s">>, <<"x">>, <<>>}
Quantities == {100, 16777217}

Orders ==
    [symbol : {"AAPL"}, side : Sides, quantity : Quantities, limit_price : {180},
     bid_price : {179}, ask_price : {181}, bid_size : {500}, ask_size : {600}]

----------------------------------------------------------------------------
(* somewhat_smart_order_router.py *)

\* "_models is None"
CacheMissFalsy(cache) == cache = None \/ Len(cache[1]) = 0
CacheMiss(cache) == cache = None

\* _load_models as one uninterrupted call: the new value of the global, the
\* number of disk reads made, and the mapping returned
LoadModels(cache, disk) ==
    LET new == IF CacheMiss(cache) THEN Some(disk) ELSE cache
    IN [cache |-> new,
        reads |-> IF CacheMiss(cache) THEN 1 ELSE 0,
        models |-> new[1]]

\* "not models"
FalsyNoneOnly(models) == FALSE
Falsy(models) == Len(models) = 0

\* side_num = 1 if side.upper() == "B" else -1
SideNumCaseSensitive(side) == IF side = <<"B">> THEN 1 ELSE -1
SideNum(side) == IF Upper(side) = <<"B">> THEN 1 ELSE -1

\* the one-row DataFrame, columns in order, dtype float32
Features(order) ==
    <<Float32(SideNum(order.side)),
      Float32(order.quantity),
      Float32(order.limit_price),
      Float32(order.bid_price),
      Float32(order.ask_price),
      Float32(order.bid_size),
      Float32(order.ask_size)>>

\* "prediction > best_prediction"
BetterOrEqual(prediction, best_prediction) == Ge(prediction, best_prediction)
Better(prediction, best_prediction) == Gt(prediction, best_prediction)

\* "best_prediction = prediction"
KeepBest(prediction, best_prediction) == best_prediction
UpdateBest(prediction, best_prediction) == prediction

\* "best_prediction = -np.inf"
InitialBestZero == Fin(0)
InitialBest == NegInf

\* models[exchange]
ModelOf(models, exchange) ==
    models[CHOOSE i \in DOMAIN models : models[i][1] = exchange][2]

\* the for loop over models.items(), from item i on
RECURSIVE Scan(_, _, _, _, _)
Scan(models, features, i, best_exchange, best_prediction) ==
    IF i > Len(models)
    THEN [best_exchange |-> best_exchange, best_prediction |-> best_prediction]
    ELSE LET exchange == models[i][1]
             prediction == Predict(models[i][2], features)
         IN IF Better(prediction, best_prediction)
            THEN Scan(models, features, i + 1, Some(exchange),
                      UpdateBest(prediction, best_prediction))
            ELSE Scan(models, features, i + 1, best_exchange, best_prediction)

NoOutcome ==
    [kind |-> "none", error |-> "", value |-> <<>>, order |-> None,
     models |-> None, features |-> <<>>, predicts |-> 0,
     best_prediction |-> NegInf]

\* the body of best_price_improvement after models = _load_models()
Route(models, order) ==
    IF Falsy(models)
    THEN [kind |-> "raise", error |-> "No models were loaded.",
          value |-> <<>>, order |-> Some(order), models |-> Some(models),
          features |-> <<>>, predicts |-> 0, best_prediction |-> NegInf]
    ELSE LET features == Features(order)
             s == Scan(models, features, 1, None, InitialBest)
         IN IF s.best_exchange = None
            THEN [kind |-> "raise",
                  error |-> "No valid prediction could be made.",
                  value |-> <<>>, order |-> Some(order),
                  models |-> Some(models), features |-> features,
                  predicts |-> Len(models),
                  best_prediction |-> s.best_prediction]
            ELSE [kind |-> "return", error |-> "",
                  value |-> <<s.best_exchange[1]>>, order |-> Some(order),
                  models |-> Some(models), features |-> features,
                  predicts |-> Len(models),
                  best_prediction |-> s.best_prediction]

----------------------------------------------------------------------------
(* cluster_features.py: values *)

DefaultClusters == 5

\* feature rows and the centroids a fitted KMeans may hold
Points == {<<0, 3>>, <<4, 0>>}
Centers == Points \cup {<<2, 1>>}
Matrices == UNION {[1..n -> Points] : n \in 1..MaxRows}

NoTransform ==
    [kind |-> "none", fitted |-> FALSE, k |-> 0, centers |-> <<>>,
     X |-> <<>>, out |-> <<>>]

SqDist(a, b) ==
    (a[1] - b[1]) * (a[1] - b[1]) + (a[2] - b[2]) * (a[2] - b[2])

\* KMeans.predict on one row: the label of the nearest centroid, the lowest
\* label among equally near ones; labels count from 0
NearestLabel(centers, row) ==
    CHOOSE j \in 0..(Len(centers) - 1) :
        \A l \in 0..(Len(centers) - 1) :
            \/ SqDist(centers[j + 1], row) < SqDist(centers[l + 1], row)
            \/ (SqDist(centers[j + 1], row) = SqDist(centers[l + 1], row) /\ j <= l)

\* self.kmeans_.predict(X).reshape(-1, 1).astype("float32")
ClusterColumn(centers, X) ==
    [i \in 1..Len(X) |-> <<Float32(NearestLabel(centers, X[i]))>>]

\* np.hstack([X, clusters])
HStackFront(X, clusters) == [i \in 1..Len(X) |-> clusters[i] \o X[i]]
HStack(X, clusters) == [i \in 1..Len(X) |-> X[i] \o clusters[i]]

\* "self.kmeans_ = KMeans(...)" followed by "self.kmeans_.fit(X)"
FitLocalOnly(current, fitted) == current
StoreFitted(current, fitted) == Some(fitted)

----------------------------------------------------------------------------
(* Initial state and the single-threaded router *)

Threads == 1..MaxThreads

InitCluster ==
    /\ kmeans_ = None
    /\ fit_returned = None
    /\ tresult = NoTransform

InitRouter ==
    /\ _models = None
    /\ loads = 0
    /\ calls = 0
    /\ outcome = NoOutcome
    /\ pc = [t \in Threads |-> "idle"]
    /\ args = [t \in Threads |-> None]

\* the process starts with the module imported and some artifact on disk
Init ==
    /\ artifact \in Registries
    /\ InitRouter
    /\ n_clusters = DefaultClusters
    /\ InitCluster

\* one whole call of best_price_improvement, nothing else running
Call(order) ==
    /\ calls < MaxCalls
    /\ LET l == LoadModels(_models, artifact)
       IN /\ _models' = l.cache
          /\ loads' = loads + l.reads
          /\ outcome' = Route(l.models, order)
    /\ calls' = calls + 1
    /\ UNCHANGED <<artifact, pc, args, clusterVars>>

Next == \E order \in Orders : Call(order)

Spec == Init /\ [][Next]_vars

----------------------------------------------------------------------------
(* best_price_improvement called from several threads: the interpreter may *)
(* switch threads between the test of _models, the assignment to it and    *)
(* the return that reads it                                                *)

ThreadOrders == {o \in Orders : o.side \in {<<"B">>, <<"s">>} /\ o.quantity = 100}
ThreadRegistries == {m \in Registries : Len(m) <= 1}

\* best_price_improvement is entered and calls _load_models
Enter(t, order) ==
    /\ pc[t] = "idle"
    /\ calls < MaxCalls
    /\ pc' = [pc EXCEPT ![t] = "check"]
    /\ args' = [args EXCEPT ![t] = Some(order)]
    /\ UNCHANGED <<artifact, _models, loads, calls, outcome, clusterVars>>

\* whether a thread that reached line 35 goes on to load: the test of line 34
\* is not repeated, whatever the cache holds by now
LoadRechecks(cache) == CacheMiss(cache)
LoadProceeds(cache) == TRUE

\* line 34: if _models is None
Check(t) ==
    /\ pc[t] = "check"
    /\ pc' = [pc EXCEPT ![t] = IF CacheMiss(_models) THEN "load" ELSE "return"]
    /\ UNCHANGED <<artifact, _models, loads, calls, outcome, args, clusterVars>>

\* line 35: _models = load(MODELS_PATH)
Load(t) ==
    /\ pc[t] = "load"
    /\ IF LoadProceeds(_models)
       THEN /\ _models' = Some(artifact)
            /\ loads' = loads + 1
       ELSE UNCHANGED <<_models, loads>>
    /\ pc' = [pc EXCEPT ![t] = "return"]
    /\ UNCHANGED <<artifact, calls, outcome, args, clusterVars>>

\* line 36: return _models, then lines 75-108 on the returned mapping
Finish(t) ==
    /\ pc[t] = "return"
    /\ outcome' = Route(_models[1], args[t][1])
    /\ calls' = calls + 1
    /\ pc' = [pc EXCEPT ![t] = "idle"]
    /\ args' = [args EXCEPT ![t] = None]
    /\ UNCHANGED <<artifact, _models, loads, clusterVars>>

InitThreads ==
    /\ artifact \in ThreadRegistries
    /\ InitRouter
    /\ n_clusters = DefaultClusters
    /\ InitCluster

NextThreads ==
    \E t \in Threads :
        \/ \E order \in ThreadOrders : Enter(t, order)
        \/ Check(t)
        \/ Load(t)
        \/ Finish(t)

SpecThreads == InitThreads /\ [][NextThreads]_vars

----------------------------------------------------------------------------
(* cluster_features.py: fit and transform *)

\* fit(X): KMeans needs at least n_clusters rows
Fit(X) ==
    /\ Len(X) >= n_clusters
    /\ \E centers \in [1..n_clusters -> Centers] :
           kmeans_' = StoreFitted(kmeans_, [cluster_centers_ |-> centers])
    /\ fit_returned' = Some("self")
    /\ UNCHANGED <<n_clusters, tresult, routerVars>>

\* transform(X)
Transform(X) ==
    /\ IF kmeans_ = None
       THEN tresult' = [kind |-> "raise", fitted |-> FALSE, k |-> n_clusters,
                        centers |-> <<>>, X |-> X, out |-> <<>>]
       ELSE LET centers == kmeans_[1].cluster_centers_
                clusters == ClusterColumn(centers, X)
            IN tresult' = [kind |-> "return", fitted |-> TRUE,
                           k |-> n_clusters, centers |-> centers, X |-> X,
                           out |-> HStack(X, clusters)]
    /\ UNCHANGED <<n_clusters, kmeans_, fit_returned, routerVars>>

\* an instance built with some n_clusters, no artifact involved
InitAdder ==
    /\ artifact = <<>>
    /\ InitRouter
    /\ n_clusters \in 1..MaxClusters
    /\ InitCluster

NextAdder == \E X \in Matrices : Fit(X) \/ Transform(X)

SpecAdder == InitAdder /\ [][NextAdder]_vars

----------------------------------------------------------------------------
(* Properties *)

EmptyError == "No models were loaded."
NoSelectionError == "No valid prediction could be made."

\* the mapping the last call scored, and what each of its models predicted
\* for the feature row the call built
Scored == outcome.models[1]
PredictionAt(i) == Predict(Scored[i][2], outcome.features)
Selected == outcome.value[1]
SelectedIndex == CHOOSE i \in DOMAIN Scored : Scored[i][1] = Selected

\* C1: every call that returns hands back the pair (venue_id,
\* predicted_improvement): a key of the registry and the float that venue's
\* model predicted for the order's feature row.
C1_ReturnsVenueAndPrediction ==
    outcome.kind = "return" =>
        /\ Len(outcome.value) = 2
        /\ outcome.value[1] \in Keys(Scored)
        /\ outcome.value[2] = Predict(ModelOf(Scored, outcome.value[1]),
                                      outcome.features)

\* C2: with a non-empty registry whose predictions are all finite the call
\* returns a venue whose prediction is >= that of every venue; with A
\* predicting 10 and B predicting 5, in either order, it returns A.
C2_ReturnsArgmax ==
    (/\ outcome.kind # "none"
     /\ Len(Scored) > 0
     /\ \A i \in DOMAIN Scored : IsFinite(PredictionAt(i)))
    => /\ outcome.kind = "return"
       /\ \A i \in DOMAIN Scored :
              Ge(Predict(ModelOf(Scored, Selected), outcome.features), PredictionAt(i))
       /\ (/\ Keys(Scored) = {"A", "B"}
           /\ ModelOf(Scored, "A") = [kind |-> "const", val |-> Fin(10)]
           /\ ModelOf(Scored, "B") = [kind |-> "const", val |-> Fin(5)])
          => Selected = "A"

C2_Witness ==
    /\ outcome.kind = "return"
    /\ Scored = <<<<"B", [kind |-> "const", val |-> Fin(5)]>>,
                  <<"A", [kind |-> "const", val |-> Fin(10)]>>>>
    /\ Selected = "A"
    /\ calls >= 2

\* C3: the venue returned is the first one in iteration order that reaches
\* the highest prediction: everything before it predicted strictly less (or
\* NaN), and nothing after it predicted strictly more.
C3_TiesKeepFirst ==
    outcome.kind = "return" =>
        /\ outcome.best_prediction = PredictionAt(SelectedIndex)
        /\ \A i \in DOMAIN Scored :
               /\ ~Gt(PredictionAt(i), PredictionAt(SelectedIndex))
               /\ i < SelectedIndex =>
                      ~Ge(PredictionAt(i), PredictionAt(SelectedIndex))

C3_Witness ==
    /\ outcome.kind = "return"
    /\ Len(Scored) = 2
    /\ IsFinite(PredictionAt(1))
    /\ PredictionAt(1) = PredictionAt(2)
    /\ Selected = Scored[1][1]

\* C4: with an artifact that holds zero venues every call, the first and any
\* later one, raises the empty-registry error, scores no model and returns
\* nothing; the empty mapping is loaded once and stays cached.
C4_EmptyRegistryRaises ==
    (calls > 0 /\ artifact = <<>>)
    => /\ outcome.kind = "raise"
       /\ outcome.error = EmptyError
       /\ outcome.predicts = 0
       /\ outcome.value = <<>>
       /\ _models = Some(<<>>)
       /\ loads = 1

C4_Witness ==
    /\ calls >= 2
    /\ artifact = <<>>
    /\ outcome.kind = "raise"
    /\ outcome.error = EmptyError

\* C5: a call ends either with a venue of the registry and no error, or with
\* an error and no value; with a non-empty registry the no-selection error
\* is raised only when no prediction is finite, and any finite prediction
\* makes the call return.
C5_NoSelectionOnlyIfNoFinite ==
    outcome.kind # "none" =>
        /\ outcome.kind \in {"return", "raise"}
        /\ outcome.kind = "return" =>
               /\ outcome.error = ""
               /\ Len(outcome.value) >= 1
               /\ Selected \in Keys(Scored)
        /\ outcome.kind = "raise" =>
               /\ outcome.value = <<>>
               /\ outcome.error \in {EmptyError, NoSelectionError}
        /\ outcome.error = NoSelectionError =>
               /\ Len(Scored) > 0
               /\ \A i \in DOMAIN Scored : ~IsFinite(PredictionAt(i))
        /\ (/\ Len(Scored) > 0
            /\ \E i \in DOMAIN Scored :
                   IsFinite(PredictionAt(i)))
           => outcome.kind = "return"

C5_Witness ==
    /\ outcome.kind = "raise"
    /\ outcome.error = NoSelectionError
    /\ Len(Scored) = 2
    /\ PredictionAt(1) = NaN
    /\ PredictionAt(2) = NegInf

\* C6: called from one thread, the artifact is read at most once: the first
\* call reads it and caches it, later calls read nothing, and once cached
\* the registry is never assigned again.
C6_LoadedOnce ==
    /\ [](loads <= 1)
    /\ [](calls >= 1 => (loads = 1 /\ _models = Some(artifact)
                         /\ outcome.models = _models))
    /\ [][calls = 0 /\ calls' = 1 => _models = None /\ loads' = loads + 1]_vars
    /\ [][_models # None => _models' = _models /\ loads' = loads]_vars

C6_Witness ==
    /\ calls >= 2
    /\ loads = 1
    /\ _models = Some(artifact)

\* C7: side "B" and side "b" give side_num = +1, every other side gives -1,
\* no side raises, and for every registry and every other order parameter
\* the call with "B" and the call with "b" build the same row and end the
\* same way.
C7_SideCaseInsensitive ==
    /\ (outcome.kind # "none" /\ Len(Scored) > 0) =>
           outcome.features[1] =
               IF outcome.order[1].side \in {<<"B">>, <<"b">>} THEN 1 ELSE -1
    /\ outcome.error \in {"", EmptyError, NoSelectionError}
    /\ _models # None =>
           \A o \in {x \in Orders : x.side = <<"B">>} :
               LET upper == Route(_models[1], [o EXCEPT !.side = <<"B">>])
                   lower == Route(_models[1], [o EXCEPT !.side = <<"b">>])
               IN /\ lower.features = upper.features
                  /\ lower.kind = upper.kind
                  /\ lower.value = upper.value
                  /\ lower.error = upper.error
                  /\ lower.best_prediction = upper.best_prediction

C7_Witness ==
    /\ outcome.kind = "return"
    /\ outcome.order[1].side = <<"b">>
    /\ outcome.features[1] = 1
    /\ Scored = <<<<"A", [kind |-> "const", val |-> Fin(5)]>>,
                  <<"B", [kind |-> "side", val |-> Fin(7)]>>>>
    /\ Selected = "B"

C9_AppendsLabelColumn ==
    tresult.kind = "return" =>
        /\ Len(tresult.out) = Len(tresult.X)
        /\ \A i \in 1..Len(tresult.X) :
               /\ Len(tresult.out[i]) = Len(tresult.X[i]) + 1
               /\ SubSeq(tresult.out[i], 1, Len(tresult.X[i])) = tresult.X[i]
               /\ tresult.out[i][Len(tresult.out[i])] \in 0..(tresult.k - 1)
               /\ tresult.out[i][Len(tresult.out[i])] =
                      NearestLabel(tresult.centers, tresult.X[i])

C9_Witness ==
    /\ tresult.kind = "return"
    /\ Len(tresult.X) = 2
    /\ tresult.out[1][3] = 1
    /\ tresult.out[2][3] = 0

\* C10: a thread that found the cache unset at line 34 reads the artifact
\* at line 35 whatever the cache holds by then, so two threads that both
\* passed the test both read it.
C10_LoadNotGuarded ==
    [][\A t \in Threads :
           (pc[t] = "load" /\ pc'[t] = "return") =>
               (loads' = loads + 1 /\ _models' = Some(artifact))]_vars

C10_Witness ==
    /\ loads = 2
    /\ \A t \in {1, 2} : pc[t] = "return"

====
